---------------------------- MODULE Spec2Model ----------------------------
(***************************************************************************)
(* A model of the sub-translator program (src/main.go): the orchestrator   *)
(* of main with its token channel, wait group and work-list file, the      *)
(* unit pipeline processProject, the collector scrollAndCollect, the       *)
(* remote call translateWithGemini with sanitizeJSON, and the filler       *)
(* fillTranslations.                                                       *)
(*                                                                         *)
(* Text is modelled as a sequence of symbols.  A symbol is one character   *)
(* that the code looks at (a space, "#", a brace, a quote, a backtick) or  *)
(* a word: a run of letters and digits none of which the code tells apart  *)
(* ("a" stands for one project URL, "results" for the key results).        *)
(***************************************************************************)
EXTENDS Integers, Sequences, FiniteSets, TLC

VARIABLES
    \* ---- orchestrator: main, removeURLFromFile, notifyTelegram
    file,            \* the work-list file, as strings.Split(content, "\n") sees it
    projects,        \* main's projects, the result of readProjects
    mainPc,          \* where main is
    idx,             \* the number of loop iterations main has completed
    sem,             \* the number of tokens in the channel sem
    wg,              \* the counter of the sync.WaitGroup
    maxConcurrency,  \* config.MaxConcurrency, the capacity of sem
    chatIdOk,        \* whether config.ChatId parses as an int64
    workers,         \* one record per goroutine main has launched
    fileMutex,       \* 0, or the goroutine that holds fileMutex
    crashed,         \* a goroutine has panicked: the process is gone
    panicEnvelope    \* the response bodies a goroutine panicked on

orchVars == <<file, projects, mainPc, idx, sem, wg, maxConcurrency, chatIdOk,
              workers, fileMutex, crashed, panicEnvelope>>

VARIABLES
    \* ---- one unit pipeline: processProject
    pipe             \* the pipeline: where it is and what it has done

VARIABLES
    \* ---- the components, each run on its own
    collector,       \* scrollAndCollect: its locals, the viewport, what it was fed
    filler,          \* fillTranslations: its position, the page, what it returned
    extraction,      \* the generated text and what translateWithGemini makes of it
    store            \* removeURLFromFile: the file before and after, the unit removed

\* Everything but the orchestrator, and everything but each component.
notOrch == <<pipe, collector, filler, extraction, store>>

notPipe == <<orchVars, collector, filler, extraction, store>>

notCollector == <<orchVars, pipe, filler, extraction, store>>

notFiller == <<orchVars, pipe, collector, extraction, store>>

notExtraction == <<orchVars, pipe, collector, filler, store>>

notStore == <<orchVars, pipe, collector, filler, extraction>>

vars == <<orchVars, pipe, collector, filler, extraction, store>>

(***************************************************************************)
(* Bounds of the model.                                                    *)
(***************************************************************************)
MaxLines == 3        \* lines of the work-list file at the start
MaxLimit == 2        \* the largest config.MaxConcurrency tried
MaxBatch == 2        \* the largest Batch a pipeline gets from its collector

(***************************************************************************)
(* Text helpers: strings.TrimSpace, strings.HasPrefix, strings.Split and   *)
(* strings.Join with "\n".                                                 *)
(***************************************************************************)
\* The white space of strings.TrimSpace and of JSON that the model's texts hold.
IsSpace(c) == c \in {" ", "\n"}

RECURSIVE TrimLeft(_)
TrimLeft(s) ==
    IF s # <<>> /\ IsSpace(Head(s)) THEN TrimLeft(Tail(s)) ELSE s

RECURSIVE TrimRight(_)
TrimRight(s) ==
    IF s # <<>> /\ IsSpace(s[Len(s)]) THEN TrimRight(SubSeq(s, 1, Len(s) - 1)) ELSE s

TrimSpace(s) == TrimRight(TrimLeft(s))

HasPrefix(s, p) == Len(s) >= Len(p) /\ SubSeq(s, 1, Len(p)) = p

\* The lines bufio.Scanner yields for a content: strings.Split's lines, without
\* the last one when it is empty (the scanner yields no final empty token).
ScanLines(content) ==
    IF content[Len(content)] = <<>> THEN SubSeq(content, 1, Len(content) - 1)
    ELSE content

\* strings.Split(strings.Join(lines, "\n") + "\n", "\n")
JoinedWithNewline(lines) ==
    IF lines = <<>> THEN << <<>>, <<>> >> ELSE Append(lines, <<>>)

RECURSIVE SeqsUpTo(_, _)
SeqsUpTo(S, n) ==
    IF n = 0 THEN {<<>>}
    ELSE LET shorter == SeqsUpTo(S, n - 1)
         IN shorter \cup {Append(q, x) : q \in shorter, x \in S}

RECURSIVE TrimAll(_)
TrimAll(lines) ==
    IF lines = <<>> THEN <<>> ELSE <<TrimSpace(Head(lines))>> \o TrimAll(Tail(lines))

(***************************************************************************)
(* readProjects: the trimmed lines that are neither blank nor comments.    *)
(***************************************************************************)
IsProjectLine(line) == line # <<>> /\ ~HasPrefix(line, <<"#">>)

readProjects(content) == SelectSeq(TrimAll(ScanLines(content)), IsProjectLine)

(***************************************************************************)
(* removeURLFromFile, lines 257-269: the content it writes for the data    *)
(* it read.                                                                *)
(***************************************************************************)
newLinesWithoutComments(data, urlToRemove) ==
    LET Keep(line) == line # <<>> /\ line # urlToRemove /\ ~HasPrefix(line, <<"#">>)
    IN SelectSeq(TrimAll(data), Keep)

newLines(data, urlToRemove) ==
    LET Keep(line) == line # <<>> /\ line # urlToRemove
    IN SelectSeq(TrimAll(data), Keep)

rewritten(data, urlToRemove) == JoinedWithNewline(newLines(data, urlToRemove))

\* The content of a file that os.WriteFile has truncated and not written.
Truncated == << <<>> >>

(***************************************************************************)
(* sanitizeJSON, lines 556-582.  Q is the double quote and Fence the       *)
(* three backticks that open and close a Markdown code block.             *)
(***************************************************************************)
Q == "\""

\* One backtick character.
BT == "bt"

Fence == <<BT, BT, BT>>

TrimPrefix(s, p) == IF HasPrefix(s, p) THEN SubSeq(s, Len(p) + 1, Len(s)) ELSE s

HasSuffix(s, p) == Len(s) >= Len(p) /\ SubSeq(s, Len(s) - Len(p) + 1, Len(s)) = p

TrimSuffix(s, p) == IF HasSuffix(s, p) THEN SubSeq(s, 1, Len(s) - Len(p)) ELSE s

\* strings.Index and strings.LastIndex of one character, 1-based; 0 for Go's -1.
Index(s, c) ==
    IF \E i \in 1..Len(s) : s[i] = c
    THEN CHOOSE i \in 1..Len(s) : s[i] = c /\ \A j \in 1..(i - 1) : s[j] # c
    ELSE 0

LastIndex(s, c) ==
    IF \E i \in 1..Len(s) : s[i] = c
    THEN CHOOSE i \in 1..Len(s) : s[i] = c /\ \A j \in (i + 1)..Len(s) : s[j] # c
    ELSE 0

\* Lines 561-571: the text with its code fence removed.
stripFence(input) ==
    IF HasPrefix(input, Fence)
    THEN TrimSpace(TrimSuffix(TrimPrefix(TrimPrefix(input, Fence \o <<"json">>), Fence), Fence))
    ELSE input

\* Lines 575-579: the text from its first "{" to its last "}".
sliceBracesNot(input) == input

sliceBraces(input) ==
    LET start == Index(input, "{")
        end == LastIndex(input, "}")
    IN IF start # 0 /\ end # 0 /\ end > start THEN SubSeq(input, start, end) ELSE input

sanitizeJSON(input) == sliceBraces(stripFence(TrimSpace(input)))

(***************************************************************************)
(* encoding/json as json.Unmarshal(text, &finalResp) uses it, line 547:    *)
(* the syntax of a JSON value (objects, arrays, strings with the escapes   *)
(* of a quote, a backslash and a line break, null and a number), then the  *)
(* decoding into GeminiResponse.                                           *)
(***************************************************************************)
ParseFail == [ok |-> FALSE]

Numbers == {"5"}

\* One backslash character.
BS == "\\"

\* The characters of a string up to its closing quote, escapes decoded: a raw
\* line break and an unknown escape are syntax errors.
RECURSIVE ScanStringRaw(_, _)
ScanStringRaw(s, acc) ==
    IF s = <<>> \/ Head(s) = "\n" THEN ParseFail
    ELSE IF Head(s) = Q
    THEN [ok |-> TRUE, val |-> [t |-> "str", s |-> acc], rest |-> Tail(s)]
    ELSE IF Head(s) = BS
    THEN IF Len(s) < 2 \/ s[2] \notin {Q, BS, "n"} THEN ParseFail
         ELSE ScanStringRaw(Tail(Tail(s)), acc \o <<BS, s[2]>>)
    ELSE ScanStringRaw(Tail(s), Append(acc, Head(s)))

RECURSIVE ScanString(_, _)
ScanString(s, acc) ==
    IF s = <<>> \/ Head(s) = "\n" THEN ParseFail
    ELSE IF Head(s) = Q
    THEN [ok |-> TRUE, val |-> [t |-> "str", s |-> acc], rest |-> Tail(s)]
    ELSE IF Head(s) = BS
    THEN IF Len(s) < 2 THEN ParseFail
         ELSE IF s[2] \in {Q, BS} THEN ScanString(Tail(Tail(s)), Append(acc, s[2]))
         ELSE IF s[2] = "n" THEN ScanString(Tail(Tail(s)), Append(acc, "\n"))
         ELSE ParseFail
    ELSE ScanString(Tail(s), Append(acc, Head(s)))

\* A string, from its opening quote.
ParseString(s) == ScanString(Tail(s), <<>>)

RECURSIVE ParseValue(_)
RECURSIVE ParseMembers(_, _)
RECURSIVE ParseElements(_, _)

ParseValue(s0) ==
    LET s == TrimLeft(s0)
    IN IF s = <<>> THEN ParseFail
       ELSE IF Head(s) = "{" THEN
           LET t == TrimLeft(Tail(s))
           IN IF t # <<>> /\ Head(t) = "}"
              THEN [ok |-> TRUE, val |-> [t |-> "obj", m |-> <<>>], rest |-> Tail(t)]
              ELSE ParseMembers(t, <<>>)
       ELSE IF Head(s) = "[" THEN
           LET t == TrimLeft(Tail(s))
           IN IF t # <<>> /\ Head(t) = "]"
              THEN [ok |-> TRUE, val |-> [t |-> "arr", e |-> <<>>], rest |-> Tail(t)]
              ELSE ParseElements(t, <<>>)
       ELSE IF Head(s) = Q THEN ParseString(s)
       ELSE IF Head(s) = "null" THEN [ok |-> TRUE, val |-> [t |-> "null"], rest |-> Tail(s)]
       ELSE IF Head(s) \in Numbers THEN [ok |-> TRUE, val |-> [t |-> "num"], rest |-> Tail(s)]
       ELSE ParseFail

ParseMembers(s0, acc) ==
    LET s == TrimLeft(s0)
    IN IF s = <<>> \/ Head(s) # Q THEN ParseFail
       ELSE LET k == ParseString(s)
            IN IF ~k.ok THEN ParseFail
               ELSE LET c == TrimLeft(k.rest)
                    IN IF c = <<>> \/ Head(c) # ":" THEN ParseFail
                       ELSE LET v == ParseValue(Tail(c))
                            IN IF ~v.ok THEN ParseFail
                               ELSE LET r == TrimLeft(v.rest)
                                        acc2 == Append(acc, [k |-> k.val.s, v |-> v.val])
                                    IN IF r = <<>> THEN ParseFail
                                       ELSE IF Head(r) = "," THEN ParseMembers(Tail(r), acc2)
                                       ELSE IF Head(r) = "}"
                                       THEN [ok |-> TRUE, val |-> [t |-> "obj", m |-> acc2],
                                             rest |-> Tail(r)]
                                       ELSE ParseFail

ParseElements(s0, acc) ==
    LET v == ParseValue(s0)
    IN IF ~v.ok THEN ParseFail
       ELSE LET r == TrimLeft(v.rest)
                acc2 == Append(acc, v.val)
            IN IF r = <<>> THEN ParseFail
               ELSE IF Head(r) = "," THEN ParseElements(Tail(r), acc2)
               ELSE IF Head(r) = "]"
               THEN [ok |-> TRUE, val |-> [t |-> "arr", e |-> acc2], rest |-> Tail(r)]
               ELSE ParseFail

\* The whole text is one JSON value (json.Unmarshal's checkValid).
ParseJSON(text) ==
    LET v == ParseValue(text)
    IN IF v.ok /\ TrimLeft(v.rest) = <<>> THEN v ELSE ParseFail

\* TranslationItem, lines 116-120, with its zero value.
ZeroItem == [id |-> <<>>, original |-> <<>>, translation |-> <<>>]

\* One member of an item object decoded into item: a string sets its field, null
\* leaves it, an unknown key is skipped, any other value is a type error.
decodeField(acc, member) ==
    LET known == member.k \in {<<"id">>, <<"text">>, <<"translation">>}
    IN IF ~known \/ member.v.t = "null" THEN acc
       ELSE IF member.v.t # "str" THEN [acc EXCEPT !.err = TRUE]
       ELSE IF member.k = <<"id">> THEN [acc EXCEPT !.item.id = member.v.s]
       ELSE IF member.k = <<"text">> THEN [acc EXCEPT !.item.original = member.v.s]
       ELSE [acc EXCEPT !.item.translation = member.v.s]

RECURSIVE decodeFields(_, _)
decodeFields(members, acc) ==
    IF members = <<>> THEN acc
    ELSE decodeFields(Tail(members), decodeField(acc, Head(members)))

decodeItem(v) ==
    IF v.t = "obj" THEN decodeFields(v.m, [err |-> FALSE, item |-> ZeroItem])
    ELSE [err |-> v.t # "null", item |-> ZeroItem]

RECURSIVE decodeItems(_)
decodeItems(elems) ==
    IF elems = <<>> THEN [err |-> FALSE, items |-> <<>>]
    ELSE LET h == decodeItem(Head(elems))
             r == decodeItems(Tail(elems))
         IN [err |-> h.err \/ r.err, items |-> <<h.item>> \o r.items]

\* GeminiResponse, lines 122-124: Results is nil until a results array is decoded.
ZeroResponse == [err |-> FALSE, isNil |-> TRUE, items |-> <<>>]

decodeResults(acc, member) ==
    IF member.k # <<"results">> THEN acc
    ELSE IF member.v.t = "null" THEN [acc EXCEPT !.isNil = TRUE, !.items = <<>>]
    ELSE IF member.v.t # "arr" THEN [acc EXCEPT !.err = TRUE]
    ELSE LET d == decodeItems(member.v.e)
         IN [err |-> acc.err \/ d.err, isNil |-> FALSE, items |-> d.items]

RECURSIVE decodeResponse(_, _)
decodeResponse(members, acc) ==
    IF members = <<>> THEN acc
    ELSE decodeResponse(Tail(members), decodeResults(acc, Head(members)))

\* json.Unmarshal([]byte(text), &finalResp): err, and finalResp.Results.
Unmarshal(text) ==
    LET v == ParseJSON(text)
    IN IF ~v.ok THEN [ZeroResponse EXCEPT !.err = TRUE]
       ELSE IF v.val.t = "null" THEN ZeroResponse
       ELSE IF v.val.t # "obj" THEN [ZeroResponse EXCEPT !.err = TRUE]
       ELSE decodeResponse(v.val.m, ZeroResponse)

(***************************************************************************)
(* encoding/json as json.Marshal writes a GeminiResponse with the tags of  *)
(* lines 116-124: the keys id, text and translation (left out when empty), *)
(* null for a nil Results, and the escapes of the strings.                 *)
(***************************************************************************)
RECURSIVE Escaped(_)
Escaped(str) ==
    IF str = <<>> THEN <<>>
    ELSE (IF Head(str) \in {Q, BS} THEN <<BS, Head(str)>>
          ELSE IF Head(str) = "\n" THEN <<BS, "n">>
          ELSE <<Head(str)>>) \o Escaped(Tail(str))

Quoted(str) == <<Q>> \o Escaped(str) \o <<Q>>

MarshalItem(item) ==
    <<"{", Q, "id", Q, ":">> \o Quoted(item.id)
        \o <<",", Q, "text", Q, ":">> \o Quoted(item.original)
        \o (IF item.translation = <<>> THEN <<>>
            ELSE <<",", Q, "translation", Q, ":">> \o Quoted(item.translation))
        \o <<"}">>

RECURSIVE MarshalItems(_)
MarshalItems(items) ==
    IF items = <<>> THEN <<>>
    ELSE IF Len(items) = 1 THEN MarshalItem(items[1])
    ELSE MarshalItem(items[1]) \o <<",">> \o MarshalItems(Tail(items))

Marshal(isNil, items) ==
    <<"{", Q, "results", Q, ":">>
        \o (IF isNil THEN <<"null">> ELSE <<"[">> \o MarshalItems(items) \o <<"]">>)
        \o <<"}">>

(***************************************************************************)
(* translateWithGemini, lines 509-553.  The response body is described by  *)
(* what the code asks of it, in the order it asks: whether http.Post       *)
(* returned it, whether it holds a "{" and a "}", and what each step of    *)
(* candidates[0].content.parts[0].text finds.  payload is that text.       *)
(***************************************************************************)
Envelope(payload) ==
    [postOk |-> TRUE, hasOpen |-> TRUE, hasClose |-> TRUE, candidates |-> "list",
     candidate0 |-> "object", content |-> "object", parts |-> "list",
     part0 |-> "object", text |-> "string", payload |-> payload]

\* Lines 544-553: the clean-up and the parse of the generated text.
extractSwallowsError(payload) ==
    LET r == Unmarshal(sanitizeJSON(payload))
    IN [kind |-> "ok", isNil |-> r.isNil, items |-> r.items]

extract(payload) ==
    LET r == Unmarshal(sanitizeJSON(payload))
    IN IF r.err THEN [kind |-> "err", isNil |-> TRUE, items |-> <<>>]
       ELSE [kind |-> "ok", isNil |-> r.isNil, items |-> r.items]

Failure(kind) == [kind |-> kind, isNil |-> TRUE, items |-> <<>>]

translateWithGemini(env) ==
    IF ~env.postOk THEN Failure("err")                            \* 510-512
    ELSE IF ~env.hasOpen \/ ~env.hasClose THEN Failure("err")     \* 522-526
    ELSE IF env.candidates # "list" THEN Failure("err")           \* 534-537
    ELSE IF env.candidate0 # "object" THEN Failure("panic")       \* 538
    ELSE IF env.content # "object" THEN Failure("panic")          \* 539
    ELSE IF env.parts # "list" THEN Failure("panic")              \* 540, 541
    ELSE IF env.part0 # "object" THEN Failure("panic")            \* 541
    ELSE IF env.text # "string" THEN Failure("panic")             \* 541
    ELSE extract(env.payload)

\* The bodies tried: the well-formed one, and one for each way to fall short.
Envelopes(payload) ==
    LET ok == Envelope(payload)
    IN {ok,
        [ok EXCEPT !.postOk = FALSE],
        [ok EXCEPT !.hasOpen = FALSE],
        [ok EXCEPT !.hasClose = FALSE],
        [ok EXCEPT !.candidates = "absent"],
        [ok EXCEPT !.candidates = "empty"],
        [ok EXCEPT !.candidate0 = "other"],
        [ok EXCEPT !.content = "absent"],
        [ok EXCEPT !.parts = "absent"],
        [ok EXCEPT !.parts = "empty"],
        [ok EXCEPT !.part0 = "other"],
        [ok EXCEPT !.text = "absent"]}

\* {"id":"5","translation":"x"}
ItemText(id, translation) ==
    <<"{", Q, "id", Q, ":", Q, id, Q, ",", Q, "translation", Q, ":", Q, translation, Q, "}">>

\* {"results":[ items ]}
ResultsText(items) == <<"{", Q, "results", Q, ":", "[">> \o items \o <<"]", "}">>

\* {"results": [   with no closing brace
UnbalancedText == <<"{", Q, "results", Q, ":", " ", "[">>

\* {"results":[]} and {} and null: texts that parse and hold no translation.
EmptyResultsText == ResultsText(<<>>)

\* The generated texts a pipeline meets.
PipelineTexts ==
    {ResultsText(ItemText("5", "x")),
     ResultsText(ItemText("5", "x") \o <<",">> \o ItemText("7", "x")),
     ResultsText(ItemText("9", "x")),
     EmptyResultsText,
     UnbalancedText}

PipelineEnvelopes == UNION {Envelopes(payload) : payload \in PipelineTexts}

(***************************************************************************)
(* processProject, lines 353-402, stage by stage.  A pipeline is a record: *)
(* pc is the stage it is about to run, stage the state of the unit,        *)
(* envelope the response body it received, and the counters say how often  *)
(* the remote call and the filler were invoked.                            *)
(***************************************************************************)
RowIds == {"5", "7"}

\* The Batches scrollAndCollect hands to a pipeline: no id twice.
Batches ==
    {b \in SeqsUpTo(RowIds, MaxBatch) : \A i, j \in 1..Len(b) : b[i] = b[j] => i = j}

NewPipe ==
    [pc |-> "navigate", stage |-> "Pending", err |-> FALSE, named |-> FALSE,
     batch |-> <<>>, envelope |-> {}, translated |-> <<>>, remoteCalls |-> 0,
     fillCalls |-> 0, trail |-> <<"Pending">>]

\* The pipeline comes to a stage: trail keeps the stages in their order.
entered(p, stage) == [p EXCEPT !.stage = stage, !.trail = Append(@, stage)]

\* processProject returns the error of one of its stages.
failedCarriesOn(p) == [entered(p, "Failed") EXCEPT !.err = TRUE]

failed(p) == [entered(p, "Failed") EXCEPT !.pc = "returned", !.err = TRUE]

\* Lines 355-379: the context, the page, the navigation and the file name.
navigate(p, ok) ==
    IF ok THEN [entered(p, "Navigated") EXCEPT !.pc = "collect", !.named = TRUE]
    ELSE failed(p)

\* Line 386: a Batch with no item ends the pipeline.
noEmptyRowsNever(batch) == FALSE

noEmptyRows(batch) == Len(batch) = 0

\* Lines 382-389: scrollAndCollect returns a Batch and never an error; line 388
\* returns when the Batch it has collected is empty.
collect(p, batch) ==
    LET q == [entered(p, "Collected") EXCEPT !.batch = batch]
    IN IF noEmptyRows(batch)
       THEN [entered(q, "Done") EXCEPT !.pc = "returned"]
       ELSE [q EXCEPT !.pc = "translate"]

\* Lines 392-396: the remote call.
translate(p, env) ==
    LET r == translateWithGemini(env)
        q == [p EXCEPT !.remoteCalls = @ + 1, !.envelope = {env}]
    IN IF r.kind = "ok"
       THEN [entered(q, "Translated") EXCEPT !.pc = "fill", !.translated = r.items]
       ELSE IF r.kind = "err" THEN failed(q)
       ELSE [q EXCEPT !.pc = "panicked"]

\* Lines 399-401: fillTranslations, which has nothing to fail on without items,
\* and the return of its result.
fill(p, ok) ==
    LET q == [p EXCEPT !.fillCalls = @ + 1]
    IN IF ok \/ q.translated = <<>>
       THEN [entered(entered(q, "Filled"), "Done") EXCEPT !.pc = "returned"]
       ELSE failed(q)

\* What the outside answers to one pipeline.
Answers ==
    [nav : BOOLEAN, batch : Batches, env : PipelineEnvelopes, fillOk : BOOLEAN]

\* A stage runs when the stages before it have led to it: each of them returns
\* from processProject on its error.
thenCollect(p, batch) == IF p.pc = "collect" THEN collect(p, batch) ELSE p

thenTranslate(p, env) == IF p.pc = "translate" THEN translate(p, env) ELSE p

thenFill(p, ok) == IF p.pc = "fill" THEN fill(p, ok) ELSE p

\* processProject from its call to its return (or its panic).
processProject(a) ==
    thenFill(thenTranslate(thenCollect(navigate(NewPipe, a.nav), a.batch), a.env),
             a.fillOk)

(***************************************************************************)
(* One unit pipeline on its own, a stage at a time.                        *)
(***************************************************************************)
PipeInit == pipe = NewPipe

PipeNavigate ==
    /\ pipe.pc = "navigate"
    /\ \E ok \in BOOLEAN : pipe' = navigate(pipe, ok)
    /\ UNCHANGED notPipe

PipeCollect ==
    /\ pipe.pc = "collect"
    /\ \E batch \in Batches : pipe' = collect(pipe, batch)
    /\ UNCHANGED notPipe

PipeTranslate ==
    /\ pipe.pc = "translate"
    /\ \E env \in PipelineEnvelopes : pipe' = translate(pipe, env)
    /\ UNCHANGED notPipe

PipeFill ==
    /\ pipe.pc = "fill"
    /\ \E ok \in BOOLEAN : pipe' = fill(pipe, ok)
    /\ UNCHANGED notPipe

PipeNext == PipeNavigate \/ PipeCollect \/ PipeTranslate \/ PipeFill

PipeIdle == pipe = NewPipe

(***************************************************************************)
(* The orchestrator: main, lines 194-243, with the goroutine it launches   *)
(* for each project, lines 216-238.                                        *)
(***************************************************************************)
\* The lines of a work-list file: three project URLs.
LineSet == {<<"a">>, <<"b">>, <<"c">>}

\* The code compares URLs and nothing more, so the files are tried up to a
\* renaming of the URLs: the first one listed is a, the next new one b, then c.
FirstUse(lines, u) ==
    IF \E i \in 1..Len(lines) : lines[i] = u
    THEN CHOOSE i \in 1..Len(lines) : lines[i] = u /\ \A j \in 1..(i - 1) : lines[j] # u
    ELSE Len(lines) + 1

InitFiles ==
    {lines \in SeqsUpTo(LineSet, MaxLines) :
        /\ FirstUse(lines, <<"a">>) <= FirstUse(lines, <<"b">>)
        /\ FirstUse(lines, <<"b">>) <= FirstUse(lines, <<"c">>)}

\* The content of a file with these lines (an empty file is one empty line).
ContentOf(lines) == IF lines = <<>> THEN << <<>> >> ELSE lines

\* What the outside answers to the pipelines of the orchestrator: every kind of
\* response body, around one text that parses and one that does not.
OrchAnswers ==
    [nav : BOOLEAN, batch : {<<>>, <<"5">>},
     env : Envelopes(ResultsText(ItemText("5", "x"))) \cup {Envelope(UnbalancedText)},
     fillOk : BOOLEAN]

\* A goroutine as the go statement of line 216 starts it.
NewWorker ==
    [pc |-> "processProject", stage |-> "Pending", err |-> FALSE, notifyCalls |-> 0,
     sends |-> 0, data |-> <<>>, rmErr |-> "", removed |-> FALSE]

OrchInit ==
    /\ file \in {ContentOf(lines) : lines \in InitFiles}
    /\ projects = <<>>
    /\ mainPc = "readProjects"
    /\ idx = 0
    /\ sem = 0
    /\ wg = 0
    /\ maxConcurrency \in 1..MaxLimit
    /\ chatIdOk \in BOOLEAN
    /\ workers = <<>>
    /\ fileMutex = 0
    /\ crashed = FALSE
    /\ panicEnvelope = {}

OrchIdle ==
    /\ file = Truncated
    /\ projects = <<>>
    /\ mainPc = "idle"
    /\ idx = 0
    /\ sem = 0
    /\ wg = 0
    /\ maxConcurrency = 1
    /\ chatIdOk = FALSE
    /\ workers = <<>>
    /\ fileMutex = 0
    /\ crashed = FALSE
    /\ panicEnvelope = {}

\* Lines 195-203: readProjects returns the list, and main returns when it is
\* empty, or readProjects returns an error.
ReadProjects ==
    /\ UNCHANGED notOrch
    /\ ~crashed
    /\ mainPc = "readProjects"
    /\ \/ /\ mainPc' = "readError"
          /\ UNCHANGED projects
       \/ /\ projects' = readProjects(file)
          /\ mainPc' = IF projects' = <<>> THEN "returned" ELSE "add"
    /\ UNCHANGED <<file, idx, sem, wg, maxConcurrency, chatIdOk, workers, fileMutex,
                   crashed, panicEnvelope>>

\* Lines 196-199: on the error main logs it and calls os.Exit(1).
readFailedReturns == "returned"

readFailed == "exit1"

ExitOnReadError ==
    /\ UNCHANGED notOrch
    /\ ~crashed
    /\ mainPc = "readError"
    /\ mainPc' = readFailed
    /\ UNCHANGED <<file, projects, idx, sem, wg, maxConcurrency, chatIdOk, workers,
                   fileMutex, crashed, panicEnvelope>>

\* Line 213: wg.Add(1).
WgAdd ==
    /\ UNCHANGED notOrch
    /\ ~crashed
    /\ mainPc = "add"
    /\ wg' = wg + 1
    /\ mainPc' = "acquire"
    /\ UNCHANGED <<file, projects, idx, sem, maxConcurrency, chatIdOk, workers,
                   fileMutex, crashed, panicEnvelope>>

\* A send on the buffered channel sem goes through while the buffer has room.
semHasRoomAlways(tokens, capacity) == TRUE

semHasRoom(tokens, capacity) == tokens < capacity

\* Line 214: sem <- struct{}{}.
Acquire ==
    /\ UNCHANGED notOrch
    /\ ~crashed
    /\ mainPc = "acquire"
    /\ semHasRoom(sem, maxConcurrency)
    /\ sem' = sem + 1
    /\ mainPc' = "go"
    /\ UNCHANGED <<file, projects, idx, wg, maxConcurrency, chatIdOk, workers,
                   fileMutex, crashed, panicEnvelope>>

\* Line 216: the go statement, and the loop's step to the next project.
Go ==
    /\ UNCHANGED notOrch
    /\ ~crashed
    /\ mainPc = "go"
    /\ workers' = Append(workers, NewWorker)
    /\ idx' = idx + 1
    /\ mainPc' = IF idx' = Len(projects) THEN "wait" ELSE "add"
    /\ UNCHANGED <<file, projects, sem, wg, maxConcurrency, chatIdOk, fileMutex,
                   crashed, panicEnvelope>>

\* Line 241: wg.Wait() returns once the counter is zero.
Wait ==
    /\ UNCHANGED notOrch
    /\ ~crashed
    /\ mainPc = "wait"
    /\ wg = 0
    /\ mainPc' = "done"
    /\ UNCHANGED <<file, projects, idx, sem, wg, maxConcurrency, chatIdOk, workers,
                   fileMutex, crashed, panicEnvelope>>

Step(i, w) ==
    /\ workers' = [workers EXCEPT ![i] = w]
    /\ UNCHANGED <<projects, mainPc, idx, maxConcurrency, chatIdOk>>

\* Lines 221-223: processProject runs and the goroutine looks at its error.  A
\* panic in a goroutine ends the process.
ProcessProject(i) ==
    /\ UNCHANGED notOrch
    /\ ~crashed
    /\ workers[i].pc = "processProject"
    /\ \E a \in OrchAnswers : \E p \in {processProject(a)} :
            IF p.pc = "panicked"
            THEN /\ crashed' = TRUE
                 /\ panicEnvelope' = {a.env}
                 /\ Step(i, workers[i])
            ELSE /\ Step(i, [workers[i] EXCEPT
                                !.pc = IF p.err THEN "notifyFailure" ELSE "lock",
                                !.stage = p.stage, !.err = p.err])
                 /\ UNCHANGED <<crashed, panicEnvelope>>
    /\ UNCHANGED <<file, sem, wg, fileMutex>>

\* notifyTelegram, lines 272-287: the message is sent when config.ChatId parses.
notifyTelegramAlwaysSends(w, chatOk) ==
    [w EXCEPT !.notifyCalls = @ + 1, !.sends = @ + 1]

notifyTelegram(w, chatOk) ==
    [w EXCEPT !.notifyCalls = @ + 1, !.sends = IF chatOk THEN @ + 1 ELSE @]

\* Lines 224-227: the failure is notified and the goroutine returns.
NotifyFailure(i) ==
    /\ UNCHANGED notOrch
    /\ ~crashed
    /\ workers[i].pc = "notifyFailure"
    /\ Step(i, [notifyTelegram(workers[i], chatIdOk) EXCEPT !.pc = "release"])
    /\ UNCHANGED <<file, sem, wg, fileMutex, crashed, panicEnvelope>>

\* sync.Mutex: Lock returns once no goroutine holds the mutex.
mutexFreeAlways(owner) == TRUE

mutexFree(owner) == owner = 0

\* Line 248: fileMutex.Lock().
Lock(i) ==
    /\ UNCHANGED notOrch
    /\ ~crashed
    /\ workers[i].pc = "lock"
    /\ mutexFree(fileMutex)
    /\ fileMutex' = i
    /\ Step(i, [workers[i] EXCEPT !.pc = "read"])
    /\ UNCHANGED <<file, sem, wg, crashed, panicEnvelope>>

\* Lines 252-255: os.ReadFile returns the content, or an error.
ReadFile(i) ==
    /\ UNCHANGED notOrch
    /\ ~crashed
    /\ workers[i].pc = "read"
    /\ \/ Step(i, [workers[i] EXCEPT !.pc = "write", !.data = file])
       \/ Step(i, [workers[i] EXCEPT !.pc = "unlock", !.rmErr = "read"])
    /\ UNCHANGED <<file, sem, wg, fileMutex, crashed, panicEnvelope>>

\* Lines 257-269: the remaining lines are written back.  os.WriteFile opens the
\* file with O_TRUNC and then writes: when it fails, the file is as it was (the
\* open failed) or empty (the write failed).
WriteFile(i) ==
    /\ UNCHANGED notOrch
    /\ ~crashed
    /\ workers[i].pc = "write"
    /\ \/ /\ file' = rewritten(workers[i].data, projects[i])
          /\ Step(i, [workers[i] EXCEPT !.pc = "unlock", !.data = <<>>,
                                        !.removed = TRUE])
       \/ /\ file' \in {file, Truncated}
          /\ Step(i, [workers[i] EXCEPT !.pc = "unlock", !.data = <<>>,
                                        !.rmErr = "write"])
    /\ UNCHANGED <<sem, wg, fileMutex, crashed, panicEnvelope>>

\* Line 249: the deferred fileMutex.Unlock().
Unlock(i) ==
    /\ UNCHANGED notOrch
    /\ ~crashed
    /\ workers[i].pc = "unlock"
    /\ fileMutex' = 0
    /\ Step(i, [workers[i] EXCEPT !.pc = "notifySuccess"])
    /\ UNCHANGED <<file, sem, wg, crashed, panicEnvelope>>

\* Lines 235-237: the success is notified.
NotifySuccess(i) ==
    /\ UNCHANGED notOrch
    /\ ~crashed
    /\ workers[i].pc = "notifySuccess"
    /\ Step(i, [notifyTelegram(workers[i], chatIdOk) EXCEPT !.pc = "release"])
    /\ UNCHANGED <<file, sem, wg, fileMutex, crashed, panicEnvelope>>

\* Line 218: the receive from sem takes one token out of the channel.
receivedNothing(tokens) == tokens

received(tokens) == tokens - 1

\* Line 218: the deferred <-sem, which runs first.
Release(i) ==
    /\ UNCHANGED notOrch
    /\ ~crashed
    /\ workers[i].pc = "release"
    /\ sem' = received(sem)
    /\ Step(i, [workers[i] EXCEPT !.pc = "wgDone"])
    /\ UNCHANGED <<file, wg, fileMutex, crashed, panicEnvelope>>

\* sync.WaitGroup: Done takes one off the counter.
DoneForgotten(counter) == counter

Done(counter) == counter - 1

\* Line 217: the deferred wg.Done(), which runs last.
WgDone(i) ==
    /\ UNCHANGED notOrch
    /\ ~crashed
    /\ workers[i].pc = "wgDone"
    /\ wg' = Done(wg)
    /\ Step(i, [workers[i] EXCEPT !.pc = "finished"])
    /\ UNCHANGED <<file, sem, fileMutex, crashed, panicEnvelope>>

OrchNext ==
    \/ ReadProjects
    \/ ExitOnReadError
    \/ WgAdd
    \/ Acquire
    \/ Go
    \/ Wait
    \/ \E i \in DOMAIN workers : ProcessProject(i)
    \/ \E i \in DOMAIN workers : NotifyFailure(i)
    \/ \E i \in DOMAIN workers : Lock(i)
    \/ \E i \in DOMAIN workers : ReadFile(i)
    \/ \E i \in DOMAIN workers : WriteFile(i)
    \/ \E i \in DOMAIN workers : Unlock(i)
    \/ \E i \in DOMAIN workers : NotifySuccess(i)
    \/ \E i \in DOMAIN workers : Release(i)
    \/ \E i \in DOMAIN workers : WgDone(i)

(***************************************************************************)
(* scrollAndCollect, lines 404-471.  A row of the page is its data-id, the *)
(* target cell (how many .empty elements it holds, and its text) and the   *)
(* source cell (the text of its highlight, if it has one, and its own).    *)
(***************************************************************************)
maxNoNewRetries == 5

scrollStep == 800

Cells ==
    {[markers |-> 1, text |-> <<>>],
     [markers |-> 0, text |-> <<" ">>],
     [markers |-> 0, text |-> <<"Empty">>],
     [markers |-> 0, text |-> <<"x">>]}

\* The source cell of a row: row 5 has a highlight, row 7 has none.
Highlight(id) == IF id = "5" THEN <<"hello">> ELSE <<>>

BaseText(id) == <<" ", "hello", " ", "world", " ">>

Rows == [id : RowIds \cup {""}, cell : Cells]

\* Line 438: the target cell counts as empty.
isEmptyCell(cell) ==
    cell.markers > 0 \/ TrimSpace(cell.text) = <<>> \/ TrimSpace(cell.text) = <<"Empty">>

\* Lines 439-442: the highlight, or else the whole source cell.
originalText(id) == IF Highlight(id) = <<>> THEN BaseText(id) ELSE Highlight(id)

\* Line 425: the row is skipped.
alreadySeenNever(id, seen) == id = ""

alreadySeen(id, seen) == id = "" \/ id \in seen

\* Line 429: the row is marked as seen, whatever its cell holds.
markSeenIfEmpty(seen, row) == IF isEmptyCell(row.cell) THEN seen \cup {row.id} ELSE seen

markSeen(seen, row) == seen \cup {row.id}

\* Lines 423-450: the rows of one snapshot, in order.  acc holds seen, results
\* and newAddedThisStep.
RECURSIVE scanRows(_, _)
scanRows(rows, acc) ==
    IF rows = <<>> THEN acc
    ELSE LET row == Head(rows)
         IN IF alreadySeen(row.id, acc.seen) THEN scanRows(Tail(rows), acc)
            ELSE scanRows(Tail(rows),
                     [seen |-> markSeen(acc.seen, row),
                      newAdded |-> acc.newAdded + 1,
                      results |->
                          IF isEmptyCell(row.cell)
                          THEN Append(acc.results,
                                      [id |-> row.id,
                                       original |-> TrimSpace(originalText(row.id))])
                          ELSE acc.results])

\* Lines 452-456.
nextNoNewCountNoReset(count, newAdded) == count + 1

nextNoNewCount(count, newAdded) == IF newAdded > 0 THEN 0 ELSE count + 1

\* What the provider showed: a row id that was not seen before.
YieldsNew(rows, seen) == \E k \in 1..Len(rows) : rows[k].id \notin seen \cup {""}

\* Row ids shown again: in a later snapshot, or twice in one.
Repeated(rows, seen) ==
    {rows[k].id : k \in {n \in 1..Len(rows) :
        /\ rows[n].id # ""
        /\ \/ rows[n].id \in seen
           \/ \E m \in 1..(n - 1) : rows[m].id = rows[n].id}}

\* What the provider showed: the cell of the first row of the snapshot with
\* this id, the ids whose first cell ever shown was empty, and the ids shown
\* again with a cell whose emptiness is not the one of their first cell.
FirstCell(rows, id) ==
    rows[CHOOSE k \in 1..Len(rows) :
            rows[k].id = id /\ \A m \in 1..(k - 1) : rows[m].id # id].cell

FirstEmpty(rows, seen) ==
    {id \in {rows[k].id : k \in 1..Len(rows)} \ (seen \cup {""}) :
        isEmptyCell(FirstCell(rows, id))}

Flipped(rows, seen, firstEmpty) ==
    {rows[k].id : k \in {n \in 1..Len(rows) :
        /\ rows[n].id # ""
        /\ rows[n].id \in seen \/ rows[n].cell # FirstCell(rows, rows[n].id)
        /\ isEmptyCell(rows[n].cell) # (rows[n].id \in firstEmpty)}}

MaxRows == 2         \* rows in one snapshot of the page

Snapshots == SeqsUpTo(Rows, MaxRows)

\* The viewport: its offset stays between the top of the page and the largest
\* offset the page allows.
PageHeights == {0, 2000, 20000}

wheel(pos, delta, height) ==
    IF pos + delta < 0 THEN 0 ELSE IF pos + delta > height THEN height ELSE pos + delta

NewCollector(pc, height) ==
    [pc |-> pc, results |-> <<>>, seen |-> {}, noNewElementsCount |-> 0,
     totalScrolled |-> 0, scrollPos |-> 0, pageHeight |-> height, lastWheel |-> 0,
     rowError |-> FALSE, passes |-> 0, stallPasses |-> 0, atLastNew |-> <<>>,
     repeats |-> {}, returned |-> <<>>, err |-> "", longestReset |-> 0,
     firstEmpty |-> {}, flipped |-> {}]

CollectorInit == collector \in {NewCollector("loop", height) : height \in PageHeights}

CollectorIdle == collector = NewCollector("idle", 0)

\* Line 414: the condition of the loop.
keepsScanningFourTimes(count) == count < maxNoNewRetries - 1

keepsScanning(count) == count < maxNoNewRetries

\* Lines 414-462: one pass of the loop over the snapshot the page returns.
\* longestReset keeps the longest run of passes without a new id that a pass
\* with a new id has ended.
ScrollPass ==
    /\ collector.pc = "loop"
    /\ keepsScanning(collector.noNewElementsCount)
    /\ \E rows \in Snapshots :
         \E acc \in {scanRows(rows, [seen |-> collector.seen, newAdded |-> 0,
                                     results |-> collector.results])} :
            collector' =
                [collector EXCEPT
                    !.seen = acc.seen,
                    !.results = acc.results,
                    !.noNewElementsCount = nextNoNewCount(@, acc.newAdded),
                    !.totalScrolled = @ + scrollStep,
                    !.scrollPos = wheel(@, scrollStep, collector.pageHeight),
                    !.lastWheel = scrollStep,
                    !.passes = @ + 1,
                    !.stallPasses = IF YieldsNew(rows, collector.seen) THEN 0 ELSE @ + 1,
                    !.atLastNew = IF YieldsNew(rows, collector.seen)
                                  THEN acc.results ELSE @,
                    !.repeats = @ \cup Repeated(rows, collector.seen),
                    !.firstEmpty = @ \cup FirstEmpty(rows, collector.seen),
                    !.flipped =
                        @ \cup Flipped(rows, collector.seen,
                                       collector.firstEmpty
                                           \cup FirstEmpty(rows, collector.seen)),
                    !.longestReset =
                        IF YieldsNew(rows, collector.seen) /\ collector.stallPasses > @
                        THEN collector.stallPasses ELSE @]
    /\ UNCHANGED notCollector

\* Line 465: the wheel that scrolls back.
scrollBackOneStep(total) == 0 - scrollStep

scrollBack(total) == 0 - total

\* Lines 464-470: the viewport is scrolled back and the results are returned.
returnResults(c) ==
    [c EXCEPT !.pc = "done",
              !.scrollPos = wheel(@, scrollBack(c.totalScrolled), c.pageHeight),
              !.lastWheel = scrollBack(c.totalScrolled),
              !.returned = c.results,
              !.err = "nil"]

\* Lines 416-421: the rows cannot be queried and the loop is left.
rowsFailedIsFatal(c) ==
    [returnResults(c) EXCEPT !.rowError = TRUE, !.returned = <<>>, !.err = "rows"]

rowsFailed(c) == [returnResults(c) EXCEPT !.rowError = TRUE]

RowsError ==
    /\ collector.pc = "loop"
    /\ keepsScanning(collector.noNewElementsCount)
    /\ collector' = rowsFailed(collector)
    /\ UNCHANGED notCollector

\* Line 414: the loop ends.
CollectorReturn ==
    /\ collector.pc = "loop"
    /\ ~keepsScanning(collector.noNewElementsCount)
    /\ collector' = returnResults(collector)
    /\ UNCHANGED notCollector

CollectorNext == ScrollPass \/ RowsError \/ CollectorReturn

(***************************************************************************)
(* fillTranslations, lines 584-629, one interaction at a time.  The page   *)
(* holds the rows RowIds; an item may name a row the page does not hold.   *)
(* saved and touched are the positions in items whose Save click went      *)
(* through and with which any interaction was tried; failedAt is the       *)
(* position of the item at which an interaction first failed.              *)
(***************************************************************************)
MaxItems == 3        \* items handed to fillTranslations

maxEditorPolls == 10

ItemIds == RowIds \cup {"9"}

NewFiller(items, pc) ==
    [pc |-> pc, items |-> items, idx |-> 1, j |-> 0, err |-> "",
     saved |-> {}, touched |-> {}, pageSaved |-> {}, failedAt |-> 0,
     closed |-> {}, gaveUp |-> {}]

FillerInit == filler \in {NewFiller(items, "scroll") : items \in SeqsUpTo(ItemIds, MaxItems)}

FillerIdle == filler = NewFiller(<<>>, "idle")

\* Lines 595, 599, 606, 615: the error is returned at once.
fillFailedCarriesOn(f, msg) == [f EXCEPT !.pc = "scroll", !.idx = @ + 1, !.err = msg]

fillFailed(f, msg) == [f EXCEPT !.pc = "done", !.err = msg]

\* One interaction with the item at idx: it goes through, or its error ends
\* the call.
Interact(from, ok, to, msg) ==
    /\ filler.pc = from
    /\ filler.idx <= Len(filler.items)
    /\ filler' =
         IF ok THEN [filler EXCEPT !.pc = to, !.touched = @ \cup {filler.idx}]
         ELSE [fillFailed(filler, msg) EXCEPT
                  !.touched = @ \cup {filler.idx},
                  !.failedAt = IF @ = 0 THEN filler.idx ELSE @]
    /\ UNCHANGED notFiller

\* Lines 592-596: a row the page does not hold cannot be scrolled to.
FillScroll ==
    \E ok \in BOOLEAN :
        /\ filler.idx <= Len(filler.items)
        /\ filler.items[filler.idx] \notin RowIds => ~ok
        /\ Interact("scroll", ok, "click", "could not scroll to row")

\* Lines 597-600: a cell that was saved no longer reads Empty.
FillClick ==
    \E ok \in BOOLEAN :
        /\ filler.idx <= Len(filler.items)
        /\ filler.items[filler.idx] \in filler.pageSaved => ~ok
        /\ Interact("click", ok, "type", "could not click cell")

\* Lines 602-607.
FillType == \E ok \in BOOLEAN : Interact("type", ok, "save", "could not type translation")

\* Lines 609-616: the Save click.
FillSave ==
    /\ filler.pc = "save"
    /\ \E ok \in BOOLEAN :
         filler' =
            IF ok THEN [filler EXCEPT !.pc = "poll", !.j = 0,
                                      !.saved = @ \cup {filler.idx},
                                      !.pageSaved = @ \cup {filler.items[filler.idx]}]
            ELSE [fillFailed(filler, "could not click save btn") EXCEPT
                     !.failedAt = IF @ = 0 THEN filler.idx ELSE @]
    /\ UNCHANGED notFiller

\* Lines 620-625: the loop goes round again while j < 10 and the editor was
\* seen visible (an error of IsVisible is dropped and reads as not visible).
keepsPollingNever(j, visible) == FALSE

keepsPolling(j, visible) == j < maxEditorPolls /\ visible

\* Lines 620-626: the editor is looked at up to ten times, then the next item.
\* closed and gaveUp keep how the loop was left: on a look that found the editor
\* not visible, or at j = 10 after ten looks that found it visible.
FillPoll ==
    /\ filler.pc = "poll"
    /\ \E visible \in BOOLEAN :
         filler' =
            IF keepsPolling(filler.j, visible)
            THEN [filler EXCEPT !.j = @ + 1]
            ELSE [filler EXCEPT
                     !.pc = "scroll", !.idx = @ + 1, !.j = 0,
                     !.closed = IF filler.j < maxEditorPolls /\ ~visible
                                THEN @ \cup {filler.idx} ELSE @,
                     !.gaveUp = IF filler.j = maxEditorPolls
                                THEN @ \cup {filler.idx} ELSE @]
    /\ UNCHANGED notFiller

\* Lines 586 and 628: no item is left.
FillReturn ==
    /\ filler.pc = "scroll"
    /\ filler.idx > Len(filler.items)
    /\ filler' = [filler EXCEPT !.pc = "done"]
    /\ UNCHANGED notFiller

FillerNext == FillScroll \/ FillClick \/ FillType \/ FillSave \/ FillPoll \/ FillReturn

(***************************************************************************)
(* translateWithGemini on one generated text, lines 543-553.               *)
(***************************************************************************)
MaxText == 3         \* symbols in an arbitrary generated text

TextSymbols == {"{", "}", "[", "]", Q, "null"}

\* Every way to cut a text short.
Truncations(text) == {SubSeq(text, 1, n) : n \in 0..Len(text)}

\* Items whose strings hold what sanitizeJSON and the parser look at: braces, a
\* quote, a backslash, a backtick, a line break.
ItemPool ==
    {[id |-> <<"5">>, original |-> <<>>, translation |-> <<"x">>],
     [id |-> <<"7">>, original |-> <<"hello">>, translation |-> <<"{", "x", Q, "}">>],
     [id |-> <<"5">>, original |-> <<"a", "\n", "b">>, translation |-> <<BS, BT>>],
     ZeroItem}

\* The result lists a response holds, each with a text that states it: the
\* serialization, and for the first the text   {"results":[{"id":"5","translation":"x"}]}
KnownResults ==
    {[text |-> Marshal(FALSE, items), items |-> items] : items \in SeqsUpTo(ItemPool, MaxBatch)}
    \cup {[text |-> ResultsText(ItemText("5", "x")),
           items |-> <<[id |-> <<"5">>, original |-> <<>>, translation |-> <<"x">>]>>]}

TextCores ==
    PipelineTexts
    \cup Truncations(ResultsText(ItemText("5", "x")))
    \cup {k.text : k \in KnownResults}
    \cup {<<"{", "}">>, <<"null">>, <<"[", "]">>, <<Q, "{", Q>>,
          <<"{", Q, "results", Q, ":", Q, "x", Q, "}">>,
          <<"{", Q, "results", Q, ":", "[", "5", "]", "}">>,
          <<"{", Q, "results", Q, ":", "[", "null", "]", "}">>,
          <<"{", Q, "results", Q, ":", "null", "}">>,
          <<"{", Q, "result", Q, ":", "[", "]", "}">>,
          ResultsText(<<"{", Q, "id", Q, ":", "5", "}">>)}

TextPrefixes ==
    {<<>>, <<" ", "\n">>, <<"Here", " ">>, Fence \o <<"json", "\n">>, Fence \o <<"\n">>,
     <<"{", "}", " ">>}

TextSuffixes == {<<>>, <<"\n">>, <<"\n">> \o Fence, <<" ", "Done">>, <<"}">>}

GeneratedTexts ==
    {pre \o core \o post : pre \in TextPrefixes, core \in TextCores, post \in TextSuffixes}
    \cup SeqsUpTo(TextSymbols, MaxText)

\* text is the generated text and result what the call makes of it; again is
\* the serialization of that result and second what the call makes of again.
NewExtraction(pc, text) ==
    [pc |-> pc, text |-> text, result |-> Failure("none"),
     again |-> <<>>, second |-> Failure("none")]

ExtractionInit == extraction \in {NewExtraction("call", text) : text \in GeneratedTexts}

ExtractionIdle == extraction = NewExtraction("idle", <<>>)

\* The call on a well-formed response body that holds the text.
Translate ==
    /\ extraction.pc = "call"
    /\ extraction' = [extraction EXCEPT !.pc = "done",
                                        !.result = translateWithGemini(Envelope(extraction.text))]
    /\ UNCHANGED notExtraction

\* The call on a response body that holds the serialization of a result.
TranslateAgain ==
    /\ extraction.pc = "done"
    /\ extraction.result.kind = "ok"
    /\ \E text \in {Marshal(extraction.result.isNil, extraction.result.items)} :
         extraction' = [extraction EXCEPT !.pc = "again",
                                          !.again = text,
                                          !.second = translateWithGemini(Envelope(text))]
    /\ UNCHANGED notExtraction

ExtractionNext == Translate \/ TranslateAgain

(***************************************************************************)
(* removeURLFromFile on its own, lines 247-270, one call after the other   *)
(* as fileMutex orders them.  The file holds references, comments, blank   *)
(* lines and lines with spaces around them; the unit removed is one that   *)
(* readProjects returned for the file of the start.                        *)
(***************************************************************************)
MaxCalls == 2        \* calls of removeURLFromFile in a row

StoreLines == {<<"a">>, <<"b">>, <<"#", "a">>, <<>>, <<" ", "a", " ">>, <<" ">>}

\* The contents tried: with and without a line break at the end.
StoreFiles ==
    {ContentOf(lines) : lines \in SeqsUpTo(StoreLines, MaxLines)}
    \cup {Append(lines, <<>>) : lines \in SeqsUpTo(StoreLines, MaxLines)}

Elements(q) == {q[i] : i \in 1..Len(q)}

NewStore(pc, content) ==
    [pc |-> pc, file |-> content, units |-> Elements(readProjects(content)),
     before |-> content, url |-> <<>>, err |-> "", calls |-> 0]

StoreInit == store \in {NewStore("ready", content) : content \in StoreFiles}

StoreIdle == store = NewStore("idle", Truncated)

\* Lines 248-270: a call that reads the file and writes it back.
RemoveURL ==
    /\ store.pc = "ready"
    /\ store.calls < MaxCalls
    /\ \E u \in store.units :
         store' = [store EXCEPT !.before = store.file,
                                !.file = rewritten(store.file, u),
                                !.url = u,
                                !.err = "",
                                !.calls = @ + 1]
    /\ UNCHANGED notStore

\* Lines 252-255 and 269: a call whose os.ReadFile fails, which leaves the file
\* alone, or whose os.WriteFile fails, which leaves it alone or truncated.
RemoveURLFails ==
    /\ store.pc = "ready"
    /\ store.calls < MaxCalls
    /\ \E u \in store.units, how \in {"read", "write", "truncate"} :
         store' = [store EXCEPT !.before = store.file,
                                !.file = IF how = "truncate" THEN Truncated ELSE @,
                                !.url = u,
                                !.err = IF how = "read" THEN "read" ELSE "write",
                                !.calls = @ + 1]
    /\ UNCHANGED notStore

StoreNext == RemoveURL \/ RemoveURLFails

(***************************************************************************)
(* The specifications.                                                     *)
(***************************************************************************)
\* The orchestrator with its goroutines.
Init == OrchInit /\ PipeIdle /\ CollectorIdle /\ FillerIdle /\ ExtractionIdle /\ StoreIdle

Spec == Init /\ [][OrchNext]_vars

\* The orchestrator with the scheduler of the Go runtime: a step that can be
\* taken, of main or of a goroutine, is not put off for ever.
SpecLive == Init /\ [][OrchNext]_vars /\ WF_vars(OrchNext)

\* One unit pipeline, stage by stage.
InitPipeline == OrchIdle /\ PipeInit /\ CollectorIdle /\ FillerIdle /\ ExtractionIdle /\ StoreIdle

SpecPipeline == InitPipeline /\ [][PipeNext]_vars

\* scrollAndCollect against a page that shows any rows it likes.
InitCollector == OrchIdle /\ PipeIdle /\ CollectorInit /\ FillerIdle /\ ExtractionIdle /\ StoreIdle

SpecCollector == InitCollector /\ [][CollectorNext]_vars

\* fillTranslations on any list of items.
InitFiller == OrchIdle /\ PipeIdle /\ CollectorIdle /\ FillerInit /\ ExtractionIdle /\ StoreIdle

SpecFiller == InitFiller /\ [][FillerNext]_vars

\* translateWithGemini on any generated text.
InitExtraction == OrchIdle /\ PipeIdle /\ CollectorIdle /\ FillerIdle /\ ExtractionInit /\ StoreIdle

SpecExtraction == InitExtraction /\ [][ExtractionNext]_vars

\* removeURLFromFile on any work-list file.
InitStore == OrchIdle /\ PipeIdle /\ CollectorIdle /\ FillerIdle /\ ExtractionIdle /\ StoreInit

SpecStore == InitStore /\ [][StoreNext]_vars

(***************************************************************************)
(* The orchestrator's properties.                                          *)
(***************************************************************************)
\* A goroutine whose pipeline has started and has not given its token back.
InPipeline(w) == w.pc \notin {"wgDone", "finished"}

Running == {i \in DOMAIN workers : InPipeline(workers[i])}

\* The goroutine has gone through its notification.
Notified(w) == w.pc \in {"release", "wgDone", "finished"}

InStore(u) == \E k \in 1..Len(readProjects(file)) : readProjects(file)[k] = u

\* C1: in every reachable state the number of pipelines that have started and
\* not yet completed is at most the concurrency limit.
C1_AtMostLimitRunning == Cardinality(Running) <= maxConcurrency

C1_Witness ==
    /\ maxConcurrency >= 2
    /\ Len(projects) > maxConcurrency
    /\ Cardinality(Running) = maxConcurrency
    /\ mainPc = "acquire"
    /\ \A i \in Running : workers[i].pc = "processProject"

\* C2: after any set of removals that all succeeded, concurrent or not, the
\* store holds the units that were read minus exactly the removed ones; from
\* [a, b, c], the removals of a and b leave exactly [c].
C2_RemovalsLeaveTheRest ==
    LET RemovedUrls == {projects[i] : i \in {j \in DOMAIN workers : workers[j].removed}}
        Left(u) == u \notin RemovedUrls
        allWritten == \A i \in DOMAIN workers : workers[i].rmErr # "write"
    IN /\ (mainPc \notin {"readProjects", "readError", "exit1"} /\ allWritten) =>
             readProjects(file) = SelectSeq(projects, Left)
       /\ ( /\ projects = << <<"a">>, <<"b">>, <<"c">> >>
            /\ Len(workers) = 3
            /\ workers[1].removed /\ workers[2].removed /\ ~workers[3].removed
            /\ allWritten ) => file = << <<"c">>, <<>> >>

C2_Witness ==
    /\ projects = << <<"a">>, <<"b">>, <<"c">> >>
    /\ Len(workers) >= 2
    /\ workers[1].removed /\ workers[1].pc = "unlock"
    /\ workers[2].removed /\ workers[2].pc = "notifySuccess"
    /\ file = << <<"c">>, <<>> >>

\* C3: a unit is removed from the store only after its own pipeline reported
\* success, and a unit whose pipeline reported failure is still in the store.
\* Stated for the runs in which every rewrite of the store went through.
C3_FailedUnitsStay ==
    (\A j \in DOMAIN workers : workers[j].rmErr = "") =>
        \A i \in DOMAIN workers :
            /\ workers[i].removed => workers[i].stage = "Done"
            /\ workers[i].stage = "Failed" => InStore(projects[i])

\* C4: an error in a stage of one pipeline ends that pipeline alone: whatever
\* a stage of one unit meets, the run is not aborted and the sibling pipelines
\* go on.
C4_ErrorsEndOnlyTheirUnit == ~crashed

\* C5 as stated: every outcome produces exactly one notification send.
C5_ExactlyOneSend ==
    \A i \in DOMAIN workers :
        /\ workers[i].sends <= 1
        /\ Notified(workers[i]) => workers[i].sends = 1

\* C5, amended: every outcome, success or failure, calls notifyTelegram exactly
\* once, and the call sends exactly one message when config.ChatId parses as an
\* integer and none when it does not; no unit ever gets more than one send.
C5_OneNotifyCallPerOutcome ==
    \A i \in DOMAIN workers :
        LET w == workers[i]
        IN /\ w.sends <= 1
           /\ Notified(w) => w.notifyCalls = 1 /\ w.sends = (IF chatIdOk THEN 1 ELSE 0)
           /\ ~Notified(w) => w.notifyCalls = 0 /\ w.sends = 0

C5_Witness ==
    /\ chatIdOk
    /\ \E i, j \in DOMAIN workers :
         /\ workers[i].pc = "finished" /\ workers[i].stage = "Failed"
         /\ workers[i].sends = 1
         /\ workers[j].pc = "finished" /\ workers[j].stage = "Done"
         /\ workers[j].sends = 1

\* C13: a pipeline starts only with a token in the channel for it and the
\* token is taken out when the pipeline completes, whatever its outcome: the
\* tokens in the channel are as many as the running pipelines, counting the
\* one main has just put in for the goroutine it is about to start, and none
\* is left once all pipelines have completed.
C13_TokensAreRunningPipelines ==
    /\ sem = Cardinality(Running) + (IF mainPc = "go" THEN 1 ELSE 0)
    /\ \A i \in DOMAIN workers : InPipeline(workers[i]) => sem >= 1
    /\ (mainPc # "go" /\ Running = {}) => sem = 0
    /\ mainPc = "done" => sem = 0

C13_Witness ==
    /\ mainPc = "done"
    /\ sem = 0
    /\ Len(workers) > maxConcurrency
    /\ \E i, j \in DOMAIN workers :
         workers[i].stage = "Failed" /\ workers[j].stage = "Done"

\* C20: at no time are two pipelines processing the same reference, also when
\* the work list holds a reference on more than one line and the limit is 2 or
\* more.
C20_OnePipelinePerUnit ==
    \A i, j \in DOMAIN workers :
        (i # j /\ InPipeline(workers[i]) /\ InPipeline(workers[j])) =>
            projects[i] # projects[j]

\* C21: when the removal of a succeeded unit fails with an I/O error, the unit
\* is still in the store; stated at the return of the failed call, for a unit
\* that no pipeline has removed.
C21_FailedRemovalKeepsTheUnit ==
    \A i \in DOMAIN workers :
        ( /\ workers[i].pc = "unlock"
          /\ workers[i].rmErr # ""
          /\ \A j \in DOMAIN workers : projects[j] = projects[i] => ~workers[j].removed )
        => InStore(projects[i])

\* C23: at any moment at most one pipeline is inside the read-filter-rewrite
\* sequence of the store, that pipeline holds the store's lock, and the content
\* it filters is the content the latest completed write left, so no removal
\* works on a content another removal has since replaced.
C23_OneRemovalAtATime ==
    LET Inside == {i \in DOMAIN workers : workers[i].pc \in {"read", "write", "unlock"}}
    IN /\ Cardinality(Inside) <= 1
       /\ \A i \in Inside : fileMutex = i
       /\ \A i \in DOMAIN workers : workers[i].pc = "write" => workers[i].data = file

C23_Witness ==
    /\ Len(workers) >= 2
    /\ workers[1].removed /\ workers[1].pc = "notifySuccess"
    /\ workers[2].pc = "write" /\ workers[2].data = file
    /\ readProjects(file) # projects

\* The orders in which the spec lets a pipeline come to its stages.
StageOrder == <<"Pending", "Navigated", "Collected", "Translated", "Filled", "Done">>

ShortStageOrder == <<"Pending", "Navigated", "Collected", "Done">>

AllowedTrails ==
    {SubSeq(StageOrder, 1, n) : n \in 1..6} \cup {ShortStageOrder}
        \cup {Append(SubSeq(StageOrder, 1, n), "Failed") : n \in 1..4}

EnteredStage(stage) == \E n \in DOMAIN pipe.trail : pipe.trail[n] = stage

\* C24: a pipeline goes through Pending, Navigated, Collected, Translated,
\* Filled, Done in that order, with the one shortcut from Collected to Done when
\* nothing was collected, or leaves a stage that is not terminal for Failed; no
\* stage is entered without the call of the one before it having succeeded, the
\* remote call and the fill are made at most once, and nothing changes once the
\* pipeline is Done or Failed.
C24_StagesOnlyMoveForward ==
    /\ [](/\ pipe.trail \in AllowedTrails
          /\ pipe.stage = pipe.trail[Len(pipe.trail)]
          /\ pipe.remoteCalls <= 1 /\ pipe.fillCalls <= 1
          /\ EnteredStage("Navigated") => pipe.named
          /\ pipe.trail = ShortStageOrder <=> (EnteredStage("Collected") /\ pipe.batch = <<>>)
          /\ EnteredStage("Translated") => pipe.remoteCalls = 1 /\ pipe.batch # <<>>
          /\ EnteredStage("Filled") => EnteredStage("Translated") /\ pipe.fillCalls = 1
          /\ pipe.remoteCalls = 1 => EnteredStage("Collected")
          /\ pipe.fillCalls = 1 => EnteredStage("Translated"))
    /\ [][pipe.stage \in {"Done", "Failed"} => pipe' = pipe]_vars

C24_Witness ==
    /\ pipe.trail = StageOrder
    /\ Len(pipe.batch) = 2

\* C25 as the spec states it: whenever the Filler begins item i+1, the editor
\* of item i has been observed closed.
C25_NextItemAfterEditorClosed ==
    \A i \in 1..(filler.idx - 1) : i \in filler.closed

\* C25: whenever the Filler begins item i+1, the editor of item i has been
\* observed not visible, or it has been looked at ten times and found visible
\* each time; and while the looks go on the Filler is still on item i.
C25_NextItemAfterClosedOrTenLooks ==
    /\ \A i \in 1..(filler.idx - 1) :
          /\ i \in filler.saved
          /\ i \in filler.closed \/ i \in filler.gaveUp
          /\ ~(i \in filler.closed /\ i \in filler.gaveUp)
    /\ filler.pc = "poll" =>
          /\ filler.j <= maxEditorPolls
          /\ filler.idx \in filler.saved
          /\ filler.idx \notin filler.closed \cup filler.gaveUp
    /\ filler.pc # "poll" => filler.j = 0

C25_Witness ==
    /\ Len(filler.items) = 3
    /\ filler.idx = 3 /\ filler.pc = "click"
    /\ 1 \in filler.gaveUp /\ 2 \in filler.closed

\* C26: the loop of the collector ends by its condition only after 5 passes in
\* a row that each yielded no new row id: the counter is the number of such
\* passes since the last pass with a new id, a pass with a new id sets it to 0
\* and the scan goes on, so a run of up to 4 such passes that a new id ends
\* never ends the scan.
C26_OnlyFiveStallsEndTheScan ==
    /\ [](/\ collector.noNewElementsCount = collector.stallPasses
          /\ collector.longestReset < maxNoNewRetries
          /\ collector.pc = "loop" => collector.noNewElementsCount <= maxNoNewRetries)
    /\ [][(collector.pc = "loop" /\ collector'.pc = "done" /\ ~collector'.rowError) =>
             /\ collector.stallPasses = maxNoNewRetries
             /\ collector'.passes = collector.passes]_vars
    /\ [][(collector'.passes # collector.passes /\ collector'.stallPasses = 0) =>
             /\ collector'.noNewElementsCount = 0
             /\ collector'.pc = "loop"
             /\ collector'.seen # collector.seen]_vars

C26_Witness ==
    /\ collector.pc = "done"
    /\ ~collector.rowError
    /\ collector.longestReset = maxNoNewRetries - 1
    /\ collector.passes = 10
    /\ Len(collector.returned) = 1

\* C27: a row is classified once, on the first pass that shows its id: the
\* Batch holds exactly the ids whose first cell shown was empty, and a pass only
\* appends entries for ids not seen before, so a later appearance of an id with
\* another emptiness (empty then filled, or filled then empty) leaves the Batch
\* as it was.
C27_FirstClassificationSticks ==
    /\ []({collector.results[k].id : k \in 1..Len(collector.results)}
             = collector.firstEmpty)
    /\ [][/\ Len(collector'.results) >= Len(collector.results)
          /\ SubSeq(collector'.results, 1, Len(collector.results)) = collector.results
          /\ \A k \in (Len(collector.results) + 1)..Len(collector'.results) :
                collector'.results[k].id \notin collector.seen]_vars

C27_Witness ==
    /\ collector.pc = "done"
    /\ collector.seen = {"5", "7"}
    /\ collector.flipped = {"5", "7"}
    /\ collector.firstEmpty = {"5"}
    /\ Len(collector.returned) = 1

\* C28: the ids of the items handed to the filler are ids of the Batch that
\* was sent for translation, whatever ids the response holds.
C28_FilledIdsWereSent ==
    pipe.fillCalls > 0 =>
        \A k \in DOMAIN pipe.translated :
            \E n \in DOMAIN pipe.batch : pipe.translated[k].id = <<pipe.batch[n]>>

\* C29: with a limit of at least 1 and any work list, unless a pipeline does
\* not return (its panic ends the process), the run comes to its end: main is
\* never left waiting for a token, for the wait group or, in a goroutine, for the
\* lock of the store.  When main has passed wg.Wait every listed unit was
\* launched, has released its token, has notified its one outcome and is
\* finished, and the lock of the store is free.
C29_TheRunComesToItsEnd ==
    /\ <>(crashed \/ mainPc \in {"done", "returned", "exit1"})
    /\ [](maxConcurrency >= 1)
    /\ [](mainPc = "returned" => readProjects(file) = <<>> /\ workers = <<>>)
    /\ [](mainPc = "done" =>
            /\ Len(projects) >= 1
            /\ Len(workers) = Len(projects)
            /\ \A i \in DOMAIN workers :
                  workers[i].pc = "finished" /\ workers[i].notifyCalls = 1
            /\ wg = 0 /\ sem = 0 /\ fileMutex = 0)

C29_Witness ==
    /\ mainPc = "done"
    /\ maxConcurrency = 1
    /\ Len(workers) = 3
    /\ \E i, j \in DOMAIN workers : workers[i].removed /\ workers[j].err

\* C22: when the work list cannot be read the run ends at once with exit
\* status 1: no pipeline is started, no notification is sent, and the file is
\* and stays as it was.
C22_UnreadableListEndsTheRun ==
    /\ [](mainPc \in {"readError", "exit1"} =>
            /\ projects = <<>> /\ workers = <<>>
            /\ idx = 0 /\ wg = 0 /\ sem = 0 /\ fileMutex = 0)
    /\ [][mainPc = "readError" => mainPc' = "exit1" /\ file' = file]_vars
    /\ [][mainPc = "exit1" => UNCHANGED vars]_vars

C22_Witness == mainPc = "exit1" /\ Len(file) = 3 /\ maxConcurrency = 2

(***************************************************************************)
(* The store's properties.                                                 *)
(***************************************************************************)
\* The last call of removeURLFromFile returned no error.
Removed == store.calls > 0 /\ store.err = ""

IsComment(line) == HasPrefix(line, <<"#">>)

\* C18 as stated: after a successful removal the file holds the remaining
\* lines that are neither blank nor comments, and no line that starts with #.
C18_NoCommentIsLeft ==
    Removed =>
        /\ store.file[Len(store.file)] = <<>>
        /\ \A i \in 1..Len(store.file) : ~IsComment(store.file[i])

\* C18, amended: after a successful removal the file holds the lines it held
\* before, trimmed and in their order, without the blank ones and without the
\* ones equal to the removed reference, each followed by a line break; the
\* comment lines are kept, and a file with no line left is one line break.
C18_CommentsAreKept ==
    Removed =>
        LET lines == SubSeq(store.file, 1, Len(store.file) - 1)
            NotRemoved(line) == line # store.url
            NotBlank(line) == line # <<>>
        IN /\ store.file[Len(store.file)] = <<>>
           /\ SelectSeq(lines, IsComment) = SelectSeq(TrimAll(store.before), IsComment)
           /\ readProjects(store.file) = SelectSeq(readProjects(store.before), NotRemoved)
           /\ TrimAll(lines) = lines
           /\ \/ SelectSeq(lines, NotBlank) = lines
              \/ lines = << <<>> >>

C18_Witness ==
    /\ Removed
    /\ store.before = << <<"#", "a">>, <<" ", "a", " ">>, <<"b">> >>
    /\ store.url = <<"a">>
    /\ store.file = << <<"#", "a">>, <<"b">>, <<>> >>

\* C19: after a successful removal the file holds the units it held before
\* minus the removed one, and no unit on more than one line.
C19_NoUnitIsLeftTwice ==
    Removed =>
        LET units == readProjects(store.file)
        IN /\ Elements(units) = Elements(readProjects(store.before)) \ {store.url}
           /\ \A i, j \in 1..Len(units) : units[i] = units[j] => i = j

(***************************************************************************)
(* The pipeline's properties.                                              *)
(***************************************************************************)
\* scrollAndCollect has returned to the pipeline.
CollectorReturned(p) == p.named /\ p.pc # "collect"

\* C6: when the collector returns a Batch with no item, the pipeline is Done
\* and neither the remote call nor the filler is ever invoked.
C6_EmptyBatchEndsThePipeline ==
    (CollectorReturned(pipe) /\ pipe.batch = <<>>) =>
        /\ pipe.pc = "returned"
        /\ pipe.stage = "Done"
        /\ ~pipe.err
        /\ pipe.remoteCalls = 0
        /\ pipe.fillCalls = 0

C6_Witness == CollectorReturned(pipe) /\ pipe.batch = <<>> /\ pipe.stage = "Done"

\* The response body arrived, holds braces, and lacks a candidate or a text part.
LacksPart(env) ==
    /\ env.postOk /\ env.hasOpen /\ env.hasClose
    /\ \/ env.candidates # "list"
       \/ env.candidate0 # "object"
       \/ env.content # "object"
       \/ env.parts # "list"
       \/ env.part0 # "object"
       \/ env.text # "string"

\* C16: when the response body lacks a candidate or a text part, the remote
\* call returns an error to the pipeline and the unit is Failed.
C16_MissingPartIsAnError ==
    \A env \in pipe.envelope :
        LacksPart(env) => pipe.pc = "returned" /\ pipe.stage = "Failed" /\ pipe.err

(***************************************************************************)
(* The filler's properties.                                                *)
(***************************************************************************)
\* C7: when an interaction fails on item k of n, the items before k are saved
\* and stay saved, the call returns an error, and no interaction is tried with
\* an item after k.
C7_FailureStopsTheFiller ==
    filler.failedAt # 0 =>
        /\ filler.failedAt \in 1..Len(filler.items)
        /\ filler.pc = "done"
        /\ filler.err # ""
        /\ filler.saved = 1..(filler.failedAt - 1)
        /\ filler.pageSaved = {filler.items[i] : i \in 1..(filler.failedAt - 1)}
        /\ filler.touched \subseteq 1..filler.failedAt

C7_Witness ==
    /\ Len(filler.items) = 3
    /\ filler.failedAt = 2
    /\ filler.pc = "done"
    /\ filler.saved = {1}
    /\ filler.touched = {1, 2}

\* C17: an item whose id matches no row of the page is skipped: the filler
\* does not fail on it and goes on with the items after it.
C17_UnknownIdIsSkipped ==
    /\ filler.failedAt # 0 => filler.items[filler.failedAt] \in RowIds
    /\ filler.pc = "done" =>
          \A k \in 1..Len(filler.items) :
              (filler.items[k] \notin RowIds /\ k < Len(filler.items)) =>
                  k + 1 \in filler.touched \/ (filler.failedAt # 0 /\ filler.failedAt # k)

(***************************************************************************)
(* The collector's properties.                                             *)
(***************************************************************************)
\* C8: once the provider stops yielding unseen row ids, from the start or
\* after some rows, the collector makes exactly 5 further passes and then
\* returns, without error, the Batch entries it had accumulated before.
C8_FivePassesAfterTheLastNewId ==
    /\ collector.pc = "loop" => collector.stallPasses <= 5
    /\ (collector.pc = "done" /\ ~collector.rowError) =>
          /\ collector.stallPasses = 5
          /\ collector.err = "nil"
          /\ collector.returned = collector.atLastNew
          /\ collector.seen = {} => collector.passes = 5 /\ collector.returned = <<>>

C8_Witness ==
    /\ collector.pc = "done"
    /\ ~collector.rowError
    /\ collector.passes > 5
    /\ collector.stallPasses = 5
    /\ Len(collector.returned) = 2

\* C9: whatever the provider shows, in one pass or in several, the results
\* hold at most one entry for a row id.
C9_OneEntryPerRowId ==
    /\ \A i, j \in 1..Len(collector.results) :
          collector.results[i].id = collector.results[j].id => i = j
    /\ \A i, j \in 1..Len(collector.returned) :
          collector.returned[i].id = collector.returned[j].id => i = j

C9_Witness ==
    /\ collector.pc = "done"
    /\ Len(collector.returned) = 2
    /\ collector.repeats = {collector.returned[1].id, collector.returned[2].id}

\* C14: the collector never returns an error: when the rows cannot be queried
\* on some pass it leaves the loop at once and returns, as a success, exactly
\* the entries of the passes before.
C14_RowErrorReturnsTheResults ==
    /\ collector.err \in {"", "nil"}
    /\ collector.pc = "done" => collector.err = "nil"
    /\ (collector.pc = "done" /\ collector.rowError) =>
          /\ collector.returned = collector.results
          /\ collector.returned = collector.atLastNew
          /\ collector.noNewElementsCount < maxNoNewRetries
          /\ collector.stallPasses = collector.noNewElementsCount

C14_Witness ==
    /\ collector.pc = "done"
    /\ collector.rowError
    /\ collector.passes = 2
    /\ Len(collector.returned) = 1
    /\ collector.err = "nil"

\* C15: when the collector returns, after the loop ended or after the rows
\* could not be queried, the viewport is where it was at the start: the last
\* wheel scrolls back by the sum of all the increments of the passes.
C15_ViewportIsRestored ==
    /\ collector.totalScrolled = collector.passes * scrollStep
    /\ collector.pc = "done" =>
          /\ collector.lastWheel = 0 - collector.totalScrolled
          /\ collector.scrollPos = 0

C15_Witness ==
    /\ collector.pc = "done"
    /\ collector.rowError
    /\ collector.passes = 3
    /\ collector.pageHeight = 20000
    /\ collector.scrollPos = 0

Wrapped(text) ==
    {text,
     Fence \o <<"json", "\n">> \o text \o <<"\n">> \o Fence,
     Fence \o <<"\n">> \o text \o <<"\n">> \o Fence,
     <<"Here", " ">> \o text \o <<" ", "Done">>}

\* C11: a results object in a code fence, tagged json or not, and the same
\* object between leading and trailing prose extract to the same ordered list
\* as the bare object: the fence is stripped and the text cut down to the
\* object, from its first opening brace to its last closing brace.
C11_FenceAndProseAreStripped ==
    extraction.pc \in {"done", "again"} =>
        \A k \in KnownResults :
            extraction.text \in Wrapped(k.text) =>
                /\ sanitizeJSON(extraction.text) = k.text
                /\ extraction.result.kind = "ok"
                /\ extraction.result.items = k.items

C11_Witness ==
    /\ extraction.pc = "done"
    /\ extraction.text = <<"Here", " ">> \o ResultsText(ItemText("5", "x")) \o <<" ", "Done">>
    /\ extraction.result.items = <<[id |-> <<"5">>, original |-> <<>>, translation |-> <<"x">>]>>

\* C12: whenever the extraction succeeds, the serialization of its result is
\* extracted with success to an equal result: the same items in the same order.
C12_ExtractionIsIdempotent ==
    extraction.pc = "again" =>
        /\ extraction.second.kind = "ok"
        /\ extraction.second.items = extraction.result.items
        /\ extraction.second.isNil = extraction.result.isNil

C12_Witness ==
    /\ extraction.pc = "again"
    /\ extraction.text # extraction.again
    /\ Len(extraction.second.items) = 2
    /\ extraction.second.items[2].translation = <<"{", "x", Q, "}">>
    /\ extraction.second.items[1].original = <<"a", "\n", "b">>

=============================================================================
